---- MODULE Spec2Model ----
(***************************************************************************)
(* DiscreteScheduler (src/diffusers/schedulers/scheduling_discrete.py):    *)
(* construction of the coefficient tables, the reverse step and the        *)
(* forward noising, over a small binary floating-point format.             *)
(***************************************************************************)
EXTENDS Integers, Sequences, FiniteSets, TLC

VARIABLES
    arith,           \* "exact": no mantissa limit; "float32": MantBits significant bits
    config,          \* the arguments of __init__
    status,          \* "new", "ok", "NotImplementedError", "TypeError"
    betas,           \* self.betas
    alphas,          \* self.alphas
    alphas_cumprod,  \* self.alphas_cumprod
    variance,        \* self.variance
    calls            \* per caller: the call in progress or last completed

vars == <<arith, config, status, betas, alphas, alphas_cumprod, variance, calls>>

tables == <<betas, alphas, alphas_cumprod, variance>>

-----------------------------------------------------------------------------
(* Numbers.  A finite number is an integer count of units of 2^-FracBits;  *)
(* results are rounded to nearest, ties to even, onto MantBits significant *)
(* bits (arith = "float32") or onto the unit grid alone (arith = "exact"). *)
(* Division by zero and overflow give the IEEE non-finite values.          *)

FracBits == 10

MantBits == 6

MaxT == 3

Unit == 2 ^ FracBits

One == Unit

MaxFinite == 2 ^ 15

PosInf == MaxFinite + 1

NegInf == 0 - PosInf

NaN == PosInf + 1

IsFinite(x) == x # NaN /\ x # PosInf /\ x # NegInf

Abs(x) == IF x < 0 THEN 0 - x ELSE x

Sign(x) == IF x < 0 THEN 0 - 1 ELSE 1

RECURSIVE Log2(_)
Log2(m) == IF m <= 1 THEN 0 ELSE 1 + Log2(m \div 2)

\* spacing of the representable numbers around magnitude m (m in units)
Quantum(m) ==
    IF arith = "exact" \/ m < 2 ^ MantBits THEN 1
    ELSE 2 ^ (Log2(m) - MantBits + 1)

\* nearest integer to n/d, ties to even (n >= 0, d > 0)
RoundRatio(n, d) ==
    LET k == n \div d
        r == n % d
    IN  IF 2 * r < d THEN k
        ELSE IF 2 * r > d THEN k + 1
        ELSE IF k % 2 = 0 THEN k ELSE k + 1

\* the representable number nearest to the rational n/d units (d > 0)
FlRatio(n, d) ==
    LET a == Abs(n)
        q == Quantum(a \div d)
        m == q * RoundRatio(a, d * q)
    IN  IF m > MaxFinite THEN (IF n < 0 THEN NegInf ELSE PosInf)
        ELSE Sign(n) * m

Neg(x) == IF x = NaN THEN NaN ELSE 0 - x

Add(x, y) ==
    IF x = NaN \/ y = NaN THEN NaN
    ELSE IF ~IsFinite(x) THEN (IF ~IsFinite(y) /\ y # x THEN NaN ELSE x)
    ELSE IF ~IsFinite(y) THEN y
    ELSE FlRatio(x + y, 1)

Sub(x, y) == Add(x, Neg(y))

Mul(x, y) ==
    IF x = NaN \/ y = NaN THEN NaN
    ELSE IF ~IsFinite(x) \/ ~IsFinite(y) THEN
        (IF x = 0 \/ y = 0 THEN NaN
         ELSE IF (x < 0) = (y < 0) THEN PosInf ELSE NegInf)
    ELSE FlRatio(x * y, Unit)

Div(x, y) ==
    IF x = NaN \/ y = NaN THEN NaN
    ELSE IF ~IsFinite(x) THEN
        (IF ~IsFinite(y) THEN NaN
         ELSE IF (x < 0) = (y < 0) THEN PosInf ELSE NegInf)
    ELSE IF ~IsFinite(y) THEN 0
    ELSE IF y = 0 THEN
        (IF x = 0 THEN NaN ELSE IF x > 0 THEN PosInf ELSE NegInf)
    ELSE FlRatio(Sign(y) * x * Unit, Abs(y))

RECURSIVE ISqrtIn(_, _, _)
\* the largest r in lo..hi with r * r <= n
ISqrtIn(n, lo, hi) ==
    IF lo >= hi THEN lo
    ELSE LET mid == (lo + hi + 1) \div 2
         IN  IF mid * mid <= n THEN ISqrtIn(n, mid, hi)
             ELSE ISqrtIn(n, lo, mid - 1)

ISqrt(n) == ISqrtIn(n, 0, 2 ^ 15)

\* np.sqrt of one number: correctly rounded, nan for a negative argument
Sqrt(x) ==
    IF x = NaN \/ x = NegInf THEN NaN
    ELSE IF x = PosInf THEN PosInf
    ELSE IF x < 0 THEN NaN
    ELSE LET n == x * Unit
             q == Quantum(ISqrt(n))
             k == ISqrt(n) \div q
             lo == k * q
             mid2 == (2 * k + 1) * q
         IN  IF 4 * n < mid2 * mid2 THEN lo
             ELSE IF 4 * n > mid2 * mid2 THEN lo + q
             ELSE IF k % 2 = 0 THEN lo ELSE lo + q

\* x >= y as the floating-point comparison: false when either is nan
Ge(x, y) == x # NaN /\ y # NaN /\ x >= y

-----------------------------------------------------------------------------
(* Values and inputs *)

\* Python's None: an unset attribute, an omitted argument
None == <<>>

Half == Unit \div 2

BetaSchedules == {"linear", "scaled_linear", "trained", "exotic"}

\* "none" stands for variance_type=None, the default
VarianceTypes == {"none", "fixed_small", "fixed_large", "learned"}

\* (beta_min, beta_max), 0 < beta_min < beta_max < 1
\* (the second beta_min is one unit, the smallest positive number of the format)
BetaRanges == {<<Unit \div 16, Unit \div 4>>, <<1, Unit \div 4>>}

Configs ==
    [num_timesteps : 1 .. MaxT,
     beta_range : BetaRanges,
     beta_schedule : BetaSchedules,
     clip_clean_sample : BOOLEAN,
     variance_type : VarianceTypes]

Callers == {"c1", "c2"}

Timesteps == (0 - MaxT - 1) .. (MaxT + 1)

SampleArrays == {<<One, 0 - Half>>, <<0 - 3 * One, 2 * One>>}

NoiseArrays == {<<One + Half, 0 - One>>}

CleanBatches == {<< <<One, 0 - Half>>, <<0, 2 * One>> >>}

NoiseBatches == {<< <<Half, 0 - One>>, <<One, Half>> >>}

\* two rows: any timestep in either row beside timestep 0, or in both rows
TimestepBatches ==
    {<<t, 0>> : t \in Timesteps} \cup {<<0, t>> : t \in Timesteps}
        \cup {<<t, t>> : t \in Timesteps}

Idle ==
    [op |-> "none", pc |-> "idle", args |-> None, locals |-> None,
     result |-> None, error |-> "none"]

-----------------------------------------------------------------------------
(* __init__: the coefficient tables *)

\* np.linspace(start, stop, num, dtype=np.float32), indexed 0 .. num-1
Linspace(start, stop, num) ==
    [i \in 0 .. num - 1 |->
        IF num = 1 THEN start
        ELSE FlRatio(start * (num - 1) + i * (stop - start), num - 1)]

LinearBetas(cfg) == Linspace(cfg.beta_range[1], cfg.beta_range[2], cfg.num_timesteps)

ScaledLinearBetas(cfg) ==
    LET r == Linspace(Sqrt(cfg.beta_range[1]), Sqrt(cfg.beta_range[2]), cfg.num_timesteps)
    IN  [i \in DOMAIN r |-> Mul(r[i], r[i])]

\* the beta_schedule branch: the table, None for "trained", "raise" otherwise
BetaTable(cfg) ==
    IF cfg.beta_schedule = "linear" THEN [raised |-> FALSE, betas |-> LinearBetas(cfg)]
    ELSE IF cfg.beta_schedule = "scaled_linear" THEN [raised |-> FALSE, betas |-> ScaledLinearBetas(cfg)]
    ELSE IF cfg.beta_schedule = "trained" THEN [raised |-> FALSE, betas |-> None]
    ELSE [raised |-> TRUE, betas |-> None]

Alphas(b) == [i \in DOMAIN b |-> Sub(One, b[i])]

RECURSIVE CumProdAt(_, _)
CumProdAt(a, i) == IF i = 0 THEN a[0] ELSE Mul(CumProdAt(a, i - 1), a[i])

\* (a variant: the exclusive product, which starts at 1)
CumProdExclusive(a) == [i \in DOMAIN a |-> IF i = 0 THEN One ELSE CumProdAt(a, i - 1)]

\* np.cumprod(a, axis=0)
CumProd(a) == [i \in DOMAIN a |-> CumProdAt(a, i)]

\* np.concatenate(([1], alphas_cumprod[1:]))
AlphasCumprodPrev(ac) == [i \in DOMAIN ac |-> IF i = 0 THEN One ELSE ac[i]]

FixedSmallVariance(ac, b) ==
    LET alphas_cumprod_prev == AlphasCumprodPrev(ac)
    IN  [i \in DOMAIN b |->
            Sqrt(Mul(Div(Sub(One, alphas_cumprod_prev[i]), Sub(One, ac[i])), b[i]))]

FixedLargeVariance(b) == [i \in DOMAIN b |-> Sqrt(b[i])]

\* np.zeros(num_timesteps)
Zeros(num) == [i \in 0 .. num - 1 |-> 0]

\* the variance_type branch; raised for a type that is not implemented
VarianceTable(cfg, ac, b) ==
    IF cfg.variance_type = "fixed_small" THEN [raised |-> FALSE, variance |-> FixedSmallVariance(ac, b)]
    ELSE IF cfg.variance_type = "fixed_large" THEN [raised |-> FALSE, variance |-> FixedLargeVariance(b)]
    ELSE IF cfg.variance_type = "none" THEN [raised |-> FALSE, variance |-> Zeros(cfg.num_timesteps)]
    ELSE [raised |-> TRUE, variance |-> None]

\* the object __init__ leaves behind, and how it ended
Build(cfg) ==
    LET bt == BetaTable(cfg)
    IN  IF bt.raised THEN
            [status |-> "NotImplementedError", betas |-> None, alphas |-> None,
             alphas_cumprod |-> None, variance |-> None]
        ELSE IF bt.betas = None THEN
            \* 1.0 - None
            [status |-> "TypeError", betas |-> None, alphas |-> None,
             alphas_cumprod |-> None, variance |-> None]
        ELSE LET a == Alphas(bt.betas)
                 ac == CumProd(a)
                 vt == VarianceTable(cfg, ac, bt.betas)
             IN  [status |-> IF vt.raised THEN "NotImplementedError" ELSE "ok",
                  betas |-> bt.betas, alphas |-> a, alphas_cumprod |-> ac,
                  variance |-> vt.variance]

Construct ==
    /\ status = "new"
    /\ LET o == Build(config)
       IN  /\ status' = o.status
           /\ betas' = o.betas
           /\ alphas' = o.alphas
           /\ alphas_cumprod' = o.alphas_cumprod
           /\ variance' = o.variance
    /\ UNCHANGED <<arith, config, calls>>

-----------------------------------------------------------------------------
(* Indexing a table of length n with a Python integer *)

\* indices that do not raise IndexError: negative ones count from the end
Indexable(n, t) == 0 - n <= t /\ t < n

At(table, n, t) == table[IF t < 0 THEN t + n ELSE t]

\* the scheduler's tables as one value
self ==
    [num_timesteps |-> config.num_timesteps, clip_sample |-> config.clip_clean_sample,
     betas |-> betas, alphas |-> alphas, alphas_cumprod |-> alphas_cumprod,
     variance |-> variance]

-----------------------------------------------------------------------------
(* step *)

\* self.sqrt, self.clip of SchedulerMixin, for tensor_format="np"
sqrt(x) == Sqrt(x)

clip(x, lo, hi) == IF x = NaN THEN NaN ELSE IF x < lo THEN lo ELSE IF x > hi THEN hi ELSE x

\* (a variant that indexes t - 1 at t = 0 too, where it wraps to the last entry)
AlphaCumprodNextWrapped(o, t) == o.alphas_cumprod[(t - 1) % o.num_timesteps]

AlphaCumprodNext(o, t) ==
    IF t > 0 THEN At(o.alphas_cumprod, o.num_timesteps, t - 1) ELSE One

\* the four table reads that open step
StepLocals(o, t) ==
    [alpha |-> At(o.alphas, o.num_timesteps, t),
     beta |-> At(o.betas, o.num_timesteps, t),
     alpha_cumprod |-> At(o.alphas_cumprod, o.num_timesteps, t),
     alpha_cumprod_next |-> AlphaCumprodNext(o, t)]

PredClean(o, l, noise_prediction, noisy_sample) ==
    [i \in DOMAIN noisy_sample |->
        LET p == Div(Sub(noisy_sample[i],
                         Mul(sqrt(Sub(One, l.alpha_cumprod)), noise_prediction[i])),
                     sqrt(l.alpha_cumprod))
        IN  IF o.clip_sample THEN clip(p, 0 - One, One) ELSE p]

CleanSampleCoeff(l) ==
    Div(Mul(sqrt(l.alpha_cumprod_next), l.beta), Sub(One, l.alpha_cumprod))

NoisySampleCoeff(l) ==
    Div(Mul(sqrt(l.alpha), Sub(One, l.alpha_cumprod_next)), Sub(One, l.alpha_cumprod))

\* (a variant that adds the term at every timestep)
AddsNoiseAtEveryT(t, noise) == noise # None

\* the guard of the stochastic term
AddsNoise(t, noise) == t > 0 /\ noise # None

\* (a variant that reads the entry of the preceding timestep)
StochasticTermPrev(o, t, noise) ==
    [i \in DOMAIN noise |-> Mul(At(o.variance, o.num_timesteps, t - 1), noise[i])]

\* self.variance[t] * noise
StochasticTerm(o, t, noise) ==
    [i \in DOMAIN noise |-> Mul(At(o.variance, o.num_timesteps, t), noise[i])]

\* the arithmetic of step, from the locals read earlier and the variance table
StepCompute(o, l, noise_prediction, noisy_sample, t, noise) ==
    LET pred_clean == PredClean(o, l, noise_prediction, noisy_sample)
        clean_sample_coeff == CleanSampleCoeff(l)
        noisy_sample_coeff == NoisySampleCoeff(l)
        next_sample ==
            [i \in DOMAIN noisy_sample |->
                Add(Mul(clean_sample_coeff, pred_clean[i]),
                    Mul(noisy_sample_coeff, noisy_sample[i]))]
    IN  IF AddsNoise(t, noise)
        THEN [i \in DOMAIN next_sample |->
                 Add(next_sample[i], StochasticTerm(o, t, noise)[i])]
        ELSE next_sample

\* one whole call on scheduler o: what it raises and what it returns
step(o, noise_prediction, noisy_sample, t, noise) ==
    IF ~Indexable(o.num_timesteps, t)
    THEN [error |-> "IndexError", result |-> None]
    ELSE [error |-> "none",
          result |-> StepCompute(o, StepLocals(o, t), noise_prediction,
                                 noisy_sample, t, noise)]

StepCall(c, noise_prediction, noisy_sample, t, noise) ==
    /\ status = "ok"
    /\ calls[c].pc # "running"
    /\ LET a == [noise_prediction |-> noise_prediction, noisy_sample |-> noisy_sample,
                 t |-> t, noise |-> noise]
       IN  calls' = [calls EXCEPT ![c] =
               IF Indexable(self.num_timesteps, t)
               THEN [op |-> "step", pc |-> "running", args |-> a,
                     locals |-> StepLocals(self, t), result |-> None, error |-> "none"]
               ELSE [op |-> "step", pc |-> "raised", args |-> a,
                     locals |-> None, result |-> None, error |-> "IndexError"]]
    /\ UNCHANGED <<arith, config, status, tables>>

\* (a variant that scales the variance entry in place while adding the term)
StepReturnInPlace(c) ==
    /\ calls[c].op = "step" /\ calls[c].pc = "running"
    /\ LET a == calls[c].args
           n == self.num_timesteps
           k == IF a.t < 0 THEN a.t + n ELSE a.t
       IN  /\ calls' = [calls EXCEPT ![c].pc = "returned",
                                      ![c].result =
                                          StepCompute(self, calls[c].locals, a.noise_prediction,
                                                      a.noisy_sample, a.t, a.noise)]
           /\ variance' = IF AddsNoise(a.t, a.noise)
                           THEN [variance EXCEPT ![k] = Mul(variance[k], a.noise[1])]
                           ELSE variance
    /\ UNCHANGED <<arith, config, status, betas, alphas, alphas_cumprod>>

StepReturn(c) ==
    /\ calls[c].op = "step" /\ calls[c].pc = "running"
    /\ LET a == calls[c].args
       IN  calls' = [calls EXCEPT ![c].pc = "returned",
                                  ![c].result =
                                      StepCompute(self, calls[c].locals, a.noise_prediction,
                                                  a.noisy_sample, a.t, a.noise)]
    /\ UNCHANGED <<arith, config, status, tables>>

-----------------------------------------------------------------------------
(* add_noise *)

\* self.alphas_cumprod[timesteps]: one entry per batch row
Gather(o, timesteps) ==
    [b \in DOMAIN timesteps |-> At(o.alphas_cumprod, o.num_timesteps, timesteps[b])]

\* self.match_shape of SchedulerMixin: one value per row, over the row's elements
match_shape(values, broadcast_array) ==
    [b \in DOMAIN broadcast_array |-> [j \in DOMAIN broadcast_array[b] |-> values[b]]]

AddNoiseCompute(gathered, clean_samples, noise) ==
    LET ac == match_shape(gathered, clean_samples)
    IN  [b \in DOMAIN clean_samples |->
            [j \in DOMAIN clean_samples[b] |->
                Add(Mul(sqrt(ac[b][j]), clean_samples[b][j]),
                    Mul(sqrt(Sub(One, ac[b][j])), noise[b][j]))]]

add_noise(o, clean_samples, noise, timesteps) ==
    IF \E b \in DOMAIN timesteps : ~Indexable(o.num_timesteps, timesteps[b])
    THEN [error |-> "IndexError", result |-> None]
    ELSE [error |-> "none",
          result |-> AddNoiseCompute(Gather(o, timesteps), clean_samples, noise)]

AddNoiseCall(c, clean_samples, noise, timesteps) ==
    /\ status = "ok"
    /\ calls[c].pc # "running"
    /\ LET a == [clean_samples |-> clean_samples, noise |-> noise, timesteps |-> timesteps]
       IN  calls' = [calls EXCEPT ![c] =
               IF \A b \in DOMAIN timesteps : Indexable(self.num_timesteps, timesteps[b])
               THEN [op |-> "add_noise", pc |-> "running", args |-> a,
                     locals |-> Gather(self, timesteps), result |-> None, error |-> "none"]
               ELSE [op |-> "add_noise", pc |-> "raised", args |-> a,
                     locals |-> None, result |-> None, error |-> "IndexError"]]
    /\ UNCHANGED <<arith, config, status, tables>>

AddNoiseReturn(c) ==
    /\ calls[c].op = "add_noise" /\ calls[c].pc = "running"
    /\ LET a == calls[c].args
       IN  calls' = [calls EXCEPT ![c].pc = "returned",
                                  ![c].result =
                                      AddNoiseCompute(calls[c].locals, a.clean_samples, a.noise)]
    /\ UNCHANGED <<arith, config, status, tables>>

-----------------------------------------------------------------------------
(* Specifications *)

InitWith(a, cfgs) ==
    /\ arith = a
    /\ config \in cfgs
    /\ status = "new"
    /\ betas = None /\ alphas = None /\ alphas_cumprod = None /\ variance = None
    /\ calls = [c \in Callers |-> Idle]

\* one caller, every input; the arithmetic keeps every bit
Init == InitWith("exact", Configs)

\* the same with the short mantissa
InitF32 == InitWith("float32", Configs)

Next ==
    \/ Construct
    \/ \E noise_prediction \in SampleArrays, noisy_sample \in SampleArrays,
          t \in Timesteps, noise \in NoiseArrays \cup {None} :
            StepCall("c1", noise_prediction, noisy_sample, t, noise)
    \/ StepReturn("c1")
    \/ \E clean_samples \in CleanBatches, noise \in NoiseBatches,
          timesteps \in TimestepBatches :
            AddNoiseCall("c1", clean_samples, noise, timesteps)
    \/ AddNoiseReturn("c1")

Spec == Init /\ [][Next]_vars

SpecF32 == InitF32 /\ [][Next]_vars

\* two callers sharing one scheduler, their calls interleaved read by read
ConcConfigs ==
    {c \in Configs : c.num_timesteps = 2 /\ c.beta_range = <<Unit \div 16, Unit \div 4>>
                     /\ c.beta_schedule = "linear"}

InitConc == InitWith("exact", ConcConfigs)

NextConc ==
    \/ Construct
    \/ \E c \in Callers :
        \/ \E t \in 0 .. 2, noise \in NoiseArrays \cup {None} :
            StepCall(c, <<One, 0 - Half>>, <<0 - 3 * One, 2 * One>>, t, noise)
        \/ StepReturn(c)
        \/ \E clean_samples \in CleanBatches, noise \in NoiseBatches,
              timesteps \in {<<0, 1>>, <<1, 1>>} :
            AddNoiseCall(c, clean_samples, noise, timesteps)
        \/ AddNoiseReturn(c)

SpecConc == InitConc /\ [][NextConc]_vars

-----------------------------------------------------------------------------
(* Properties *)

N == config.num_timesteps

InRange(t) == 0 <= t /\ t < N

Finished(c, op) == calls[c].op = op /\ calls[c].pc = "returned"

Ended(c, op) == calls[c].op = op /\ calls[c].pc \in {"returned", "raised"}

\* the scheduler as __init__ builds it from the configuration
Fresh ==
    LET o == Build(config)
    IN  [num_timesteps |-> config.num_timesteps, clip_sample |-> config.clip_clean_sample,
         betas |-> o.betas, alphas |-> o.alphas, alphas_cumprod |-> o.alphas_cumprod,
         variance |-> o.variance]

\* C1: a step at t = 0 that was given noise returns exactly what the same step
\* returns when noise is absent: the term variance[0] * noise is not added.
C1_TerminalStepIgnoresNoise ==
    \A c \in Callers :
        (Finished(c, "step") /\ calls[c].args.t = 0 /\ calls[c].args.noise # None)
        => calls[c].result =
               step(self, calls[c].args.noise_prediction, calls[c].args.noisy_sample,
                    0, None).result

C1_Witness ==
    \E c \in Callers :
        /\ Finished(c, "step") /\ calls[c].args.t = 0 /\ calls[c].args.noise # None
        /\ Mul(variance[0], calls[c].args.noise[1]) # 0

\* C2: a step whose timestep is outside [0, num_timesteps), or an add_noise with such
\* a value anywhere in timesteps, ends in an error and returns no sample.
C2_OutOfRangeTimestepRaises ==
    \A c \in Callers :
        /\ (Ended(c, "step") /\ ~InRange(calls[c].args.t))
           => (calls[c].pc = "raised" /\ calls[c].result = None)
        /\ (Ended(c, "add_noise")
            /\ \E b \in DOMAIN calls[c].args.timesteps : ~InRange(calls[c].args.timesteps[b]))
           => (calls[c].pc = "raised" /\ calls[c].result = None)

\* C3: with variance_type fixed_small, variance[i] is
\* sqrt((1 - prev[i]) / (1 - alphas_cumprod[i]) * betas[i]) where prev[0] = 1 and
\* prev[i] = alphas_cumprod[i-1] for i >= 1.
C3_FixedSmallUsesPrecedingCumprod ==
    (status = "ok" /\ config.variance_type = "fixed_small")
    => \A i \in 0 .. N - 1 :
           LET prev == IF i = 0 THEN One ELSE alphas_cumprod[i - 1]
           IN  variance[i] =
                   Sqrt(Mul(Div(Sub(One, prev), Sub(One, alphas_cumprod[i])), betas[i]))

\* C4: construction with beta_schedule "trained" ends in the not-implemented error
\* that an unknown schedule produces, never in another failure.
C4_TrainedRaisesNotImplemented ==
    (config.beta_schedule = "trained" /\ status # "new")
    => status = "NotImplementedError"

\* C5: construction fails with the not-implemented error whenever the beta schedule
\* or the variance type is not a known one, and succeeds for linear and
\* scaled_linear with a known variance type.
C5_UnknownConfigurationRaises ==
    status # "new"
    => /\ (config.beta_schedule \notin {"linear", "scaled_linear", "trained"}
           \/ config.variance_type \notin {"none", "fixed_small", "fixed_large"})
          => status = "NotImplementedError"
       /\ (config.beta_schedule \in {"linear", "scaled_linear"}
           /\ config.variance_type \in {"none", "fixed_small", "fixed_large"})
          => status = "ok"

\* C6: while callers interleave step and add_noise on one scheduler, the four tables
\* stay as built, and every call that ends has the outcome the same call has when
\* run alone on the freshly built scheduler.
C6_TablesFrozenCallsIndependent ==
    status = "ok"
    => /\ betas = Fresh.betas /\ alphas = Fresh.alphas
       /\ alphas_cumprod = Fresh.alphas_cumprod /\ variance = Fresh.variance
       /\ \A c \in Callers :
           /\ Ended(c, "step")
              => LET a == calls[c].args
                     alone == step(Fresh, a.noise_prediction, a.noisy_sample, a.t, a.noise)
                 IN  calls[c].error = alone.error /\ calls[c].result = alone.result
           /\ Ended(c, "add_noise")
              => LET a == calls[c].args
                     alone == add_noise(Fresh, a.clean_samples, a.noise, a.timesteps)
                 IN  calls[c].error = alone.error /\ calls[c].result = alone.result

\* both callers have finished a call, one of them a step that added its noise term
\* while the other call was in progress or done
C6_Witness ==
    /\ status = "ok"
    /\ Finished("c1", "step") /\ calls["c1"].args.t = 1 /\ calls["c1"].args.noise # None
    /\ config.variance_type = "fixed_large"
    /\ Finished("c2", "step") /\ calls["c2"].args.t = 1 /\ calls["c2"].args.noise # None

\* C7: variance has num_timesteps entries, none negative; variance[0] = 0 with
\* fixed_small; every entry is 0 with variance_type none.
C7_VarianceNonNegative ==
    status = "ok"
    => /\ DOMAIN variance = 0 .. N - 1
       /\ \A i \in 0 .. N - 1 : Ge(variance[i], 0)
       /\ config.variance_type = "fixed_small" => variance[0] = 0
       /\ config.variance_type = "none" => \A i \in 0 .. N - 1 : variance[i] = 0

\* C8: with every beta in (0,1): alphas[i] = 1 - betas[i]; alphas_cumprod[0] =
\* alphas[0]; alphas_cumprod[i] is the product alphas_cumprod[i-1] * alphas[i]
\* (to the nearest unit); alphas_cumprod never increases; the three tables have
\* num_timesteps entries.
C8_CumulativeProductTables ==
    (status = "ok" /\ \A i \in DOMAIN betas : 0 < betas[i] /\ betas[i] < One)
    => /\ DOMAIN betas = 0 .. N - 1
       /\ DOMAIN alphas = 0 .. N - 1
       /\ DOMAIN alphas_cumprod = 0 .. N - 1
       /\ \A i \in 0 .. N - 1 : alphas[i] = One - betas[i]
       /\ alphas_cumprod[0] = alphas[0]
       /\ \A i \in 1 .. N - 1 :
           /\ 2 * Abs(alphas_cumprod[i] * Unit - alphas_cumprod[i - 1] * alphas[i]) <= Unit
           /\ alphas_cumprod[i] <= alphas_cumprod[i - 1]

C8_Witness ==
    /\ status = "ok" /\ N >= 3
    /\ \A i \in DOMAIN betas : 0 < betas[i] /\ betas[i] < One
    /\ \A i \in 1 .. N - 1 : alphas_cumprod[i] < alphas_cumprod[i - 1]

\* C9: for 0 < t < num_timesteps a step given noise returns the result of the same
\* step without noise plus variance[t] * noise, element by element; with
\* variance_type none, noise changes the result at no t.
C9_StochasticTermIsVarianceAtT ==
    \A c \in Callers :
        (Finished(c, "step") /\ calls[c].args.noise # None)
        => LET a == calls[c].args
               absent == step(self, a.noise_prediction, a.noisy_sample, a.t, None).result
           IN  /\ (0 < a.t /\ a.t < N)
                  => \A i \in DOMAIN calls[c].result :
                         calls[c].result[i] = Add(absent[i], Mul(variance[a.t], a.noise[i]))
               /\ config.variance_type = "none" => calls[c].result = absent

\* a step with noise at a timestep whose variance differs from its predecessor's
C9_Witness ==
    \E c \in Callers :
        /\ Finished(c, "step") /\ calls[c].args.noise # None
        /\ 0 < calls[c].args.t /\ calls[c].args.t < N
        /\ variance[calls[c].args.t] # 0
        /\ variance[calls[c].args.t] # variance[calls[c].args.t - 1]

\* C10: at t = 0 the coefficient of the predicted clean sample is 1 and that of the
\* noisy sample is 0, so step returns the predicted clean sample, whose elements lie
\* in [-1, 1] when clipping is on.
C10_TerminalStepReturnsPredClean ==
    \A c \in Callers :
        (Finished(c, "step") /\ calls[c].args.t = 0)
        => LET a == calls[c].args
               l == calls[c].locals
           IN  /\ l.alpha_cumprod_next = One
               /\ CleanSampleCoeff(l) = One
               /\ NoisySampleCoeff(l) = 0
               /\ calls[c].result = PredClean(self, l, a.noise_prediction, a.noisy_sample)
               /\ config.clip_clean_sample
                  => \A i \in DOMAIN calls[c].result :
                         0 - One <= calls[c].result[i] /\ calls[c].result[i] <= One

\* a step at t = 0 with clipping on whose unclipped prediction leaves [-1, 1]
C10_Witness ==
    \E c \in Callers :
        /\ Finished(c, "step") /\ calls[c].args.t = 0 /\ config.clip_clean_sample
        /\ \E i \in DOMAIN calls[c].result : calls[c].result[i] = 0 - One
        /\ \E i \in DOMAIN calls[c].result : calls[c].result[i] = One
====
